---- MODULE Spec2Model ----
(***************************************************************************)
(* Model of the ChGK question harvesters.                                  *)
(*                                                                         *)
(*   Pipeline A  src/src/scraper_db.py  (db.chgk.info, JSON API, resumable)*)
(*   Pipeline B  src/src/scraper_gq.py  (gotquestions.online, HTML pages)  *)
(*                                                                         *)
(* A run of Pipeline A is a state machine: load the prior table, list the  *)
(* packages page by page, fetch and flatten every listed package in a      *)
(* worker pool, merge with the prior table, write.  The remote source is   *)
(* the environment: a catalogue of packages with a played-at date, served  *)
(* newest first, page by page, honouring the playedAt[before] filter.      *)
(* Package ids are labels: the packages are numbered newest first.         *)
(***************************************************************************)
EXTENDS Integers, Sequences, FiniteSets, TLC

(***************************************************************************)
(* Bounds of the model.                                                    *)
(***************************************************************************)
MaxPkgs == 2        \* packages in the source catalogue: ids 1..MaxPkgs
MaxRuns == 2        \* consecutive runs of the script on the same output file
MaxUnits == 2       \* page numbers / pack ids / urls a fetcher is called with
MaxDelay == 1       \* largest --delay (seconds) of Pipeline A tried
MaxTours == 2       \* tours of the package handed to the flattener
MaxQuestions == 2   \* questions of one such tour

RETRIES == 3        \* scraper_gq.py: attempts per request

(***************************************************************************)
(* Encodings of Python's None and pandas' NaT.                             *)
(***************************************************************************)
None == 0 - 1       \* args.limit / last_played_at not set
NaT == 0            \* "NaT": isoformat() of the maximum of an empty column
NoDate == 0         \* a package or row without played-at
NoId == 0           \* a question object without an "id" field

Pkgs == 1..MaxPkgs
Dates == 1..MaxPkgs          \* played-at dates, larger = newer: one per package
PageSizes == 1..MaxPkgs      \* members per listing page served by the source
Limits == 0..(MaxPkgs - 1)   \* --limit values below the size of the catalogue

(***************************************************************************)
(* Generic sequence helpers.                                               *)
(***************************************************************************)
RECURSIVE Flatten(_)
Flatten(ss) == IF ss = <<>> THEN <<>> ELSE Head(ss) \o Flatten(Tail(ss))

Min(a, b) == IF a < b THEN a ELSE b

(***************************************************************************)
(* State.                                                                  *)
(***************************************************************************)
VARIABLES
  \* ---- environment: the remote source and the command line ----
  pkgDate,              \* playedAt of every package (NoDate: field absent)
  pageSize,             \* members per listing page
  limit,                \* args.limit (None: not given)
  file,                 \* the file at args.output: [state, rows]
  \* ---- Pipeline A: locals of main() ----
  run,                  \* number of the current invocation of the script
  pc,                   \* position of main(): start, listing, detail, done, crashed
  last_played_at,       \* None, NaT or a date
  df_existing,          \* the prior table as loaded (rows), <<>> if not loaded
  current_page,
  packages_to_process,  \* sequence of package ids collected by the listing
  requests,             \* listing requests issued in this run, in order
  pending,              \* indices of submitted detail tasks not yet consumed
  all_questions_data,   \* aggregate of flat records
  written,              \* this run reached to_parquet and it succeeded
  prior,                \* the file as it was when this run started
  raised                \* indices of the tasks whose future.result() raised

varsA == <<pkgDate, pageSize, limit, file, run, pc, last_played_at,
           df_existing, current_page, packages_to_process, requests, pending,
           all_questions_data, written, prior, raised>>

VARIABLES
  \* ---- one call of a fetcher (either pipeline) ----
  fetcher,              \* the function called
  unit,                 \* its page_num / pack_id / url
  delay,                \* args.delay (fetch_data only)
  fpc,                  \* position in the call: request, parse, returned, raised
  attempt,              \* loop variable of the retry loop
  outcomes,             \* outcome of every GET issued by the call, in order
  sleeps,               \* argument of every time.sleep of the call, in order
  body,                 \* shape of the body of the response received
  result                \* what the call returned: pending, None, payload

varsF == <<fetcher, unit, delay, fpc, attempt, outcomes, sleeps, body, result>>

VARIABLES
  \* ---- one call of process_package ----
  package,              \* package_info
  tours_payload,        \* the source's answers: the tours, each with its questions
  ppc,                  \* position of the call: call, returned, idle
  package_questions     \* the list returned

varsP == <<package, tours_payload, ppc, package_questions>>

vars == <<varsA, varsF, varsP>>

Absent == [state |-> "absent", rows |-> <<>>]
Corrupt == [state |-> "corrupt", rows |-> <<>>]
Table(rows) == [state |-> "ok", rows |-> rows]

(***************************************************************************)
(* fetch_data: one GET, no retry.  The source's answer to a request is     *)
(* [outcome, member]: outcome "ok" carries the hydra:member collection,    *)
(* any other outcome (connection error, HTTP status, bad JSON) is logged   *)
(* and becomes None.                                                       *)
(***************************************************************************)
Ok(member) == [outcome |-> "ok", member |-> member]
Error == [outcome |-> "error", member |-> <<>>]

FetchNone == [ok |-> FALSE, member |-> <<>>]

fetch_data(answer) ==
  IF answer.outcome = "ok" THEN [ok |-> TRUE, member |-> answer.member] ELSE FetchNone

(***************************************************************************)
(* process_tour / process_package: the record flattener.  tour_info is a   *)
(* tour of the package's tour list together with the source's answer to    *)
(* /tours/<id>/questions; a question is represented by its id (NoId: the   *)
(* object has no "id").  fetched_in is the run that fetched the record: it *)
(* stands for the question's content (text, answer, ...) as of that fetch. *)
(***************************************************************************)
PlayedType(d) == IF d = NoDate THEN "null" ELSE "str"

\* faulty variant of flat_record: the tour's number stored as its id
flat_record_number_as_id(question_info, tour_info, package_info, gen) ==
  [question_id |-> question_info,
   package_id |-> package_info.id,
   package_title |-> package_info.title,
   package_played_at |-> package_info.playedAt,
   played_type |-> PlayedType(package_info.playedAt),
   tour_id |-> tour_info.number,
   tour_title |-> tour_info.title,
   tour_number |-> tour_info.number,
   fetched_in |-> gen]

flat_record(question_info, tour_info, package_info, gen) ==
  [question_id |-> question_info,
   package_id |-> package_info.id,
   package_title |-> package_info.title,
   package_played_at |-> package_info.playedAt,
   played_type |-> PlayedType(package_info.playedAt),
   tour_id |-> tour_info.id,
   tour_title |-> tour_info.title,
   tour_number |-> tour_info.number,
   fetched_in |-> gen]

process_tour(tour_info, package_info, gen) ==
  IF tour_info.id = NoId THEN <<>>
  ELSE LET questions_data == fetch_data(tour_info.questions)
       IN IF questions_data.ok
          THEN [i \in 1..Len(questions_data.member) |->
                  flat_record(questions_data.member[i], tour_info, package_info, gen)]
          ELSE <<>>

process_package(package_info, tours_answer, gen) ==
  IF package_info.id = NoId THEN <<>>
  ELSE LET tours_data == fetch_data(tours_answer)
       IN IF tours_data.ok
          THEN Flatten([i \in 1..Len(tours_data.member) |->
                          process_tour(tours_data.member[i], package_info, gen)])
          ELSE <<>>

(***************************************************************************)
(* pandas operations of the load and merge steps.  A table is a sequence   *)
(* of rows.  played_type is the Python type of the played-at cell: "str"   *)
(* as fetched, "ts" (Timestamp) after pd.to_datetime, "null" for None/NaT. *)
(***************************************************************************)
to_datetime(rows) ==
  [i \in DOMAIN rows |->
     IF rows[i].played_type = "str" THEN [rows[i] EXCEPT !.played_type = "ts"]
     ELSE rows[i]]

IsNotNull(r) == r.played_type # "null"
IsNull(r) == r.played_type = "null"

dropna(rows) == SelectSeq(rows, IsNotNull)

\* Series.max().isoformat(): NaT for a column without values
MaxPlayedAt(rows) ==
  IF rows = <<>> THEN NaT
  ELSE CHOOSE d \in {rows[i].package_played_at : i \in DOMAIN rows} :
         \A i \in DOMAIN rows : rows[i].package_played_at <= d

concat(a, b) == a \o b

\* faulty variants of drop_duplicates: no deduplication, keep="first", keep=False
drop_duplicates_none(rows) == rows

drop_duplicates_first(rows) ==
  LET Keep(i) == \A j \in DOMAIN rows : j < i => rows[j].question_id # rows[i].question_id
      RECURSIVE From(_)
      From(i) == IF i > Len(rows) THEN <<>>
                 ELSE IF Keep(i) THEN <<rows[i]>> \o From(i + 1) ELSE From(i + 1)
  IN From(1)

drop_duplicates_keep_false(rows) ==
  LET Keep(i) == \A j \in DOMAIN rows : j # i => rows[j].question_id # rows[i].question_id
      RECURSIVE From(_)
      From(i) == IF i > Len(rows) THEN <<>>
                 ELSE IF Keep(i) THEN <<rows[i]>> \o From(i + 1) ELSE From(i + 1)
  IN From(1)

\* keep="last": a row survives iff no later row has its question_id
\* (pandas counts two missing ids as equal)
drop_duplicates(rows) ==
  LET Keep(i) == \A j \in DOMAIN rows : j > i => rows[j].question_id # rows[i].question_id
      RECURSIVE From(_)
      From(i) == IF i > Len(rows) THEN <<>>
                 ELSE IF Keep(i) THEN <<rows[i]>> \o From(i + 1) ELSE From(i + 1)
  IN From(1)

\* comparing a Timestamp with a str raises TypeError
SortRaises(rows) ==
  /\ \E i \in DOMAIN rows : rows[i].played_type = "ts"
  /\ \E i \in DOMAIN rows : rows[i].played_type = "str"

\* descending, missing values last; the argsort of a short column is an
\* insertion sort, so ties keep their order
RECURSIVE InsertDesc(_, _)
InsertDesc(sorted, r) ==
  IF sorted = <<>> THEN <<r>>
  ELSE IF Head(sorted).package_played_at >= r.package_played_at
       THEN <<Head(sorted)>> \o InsertDesc(Tail(sorted), r)
       ELSE <<r>> \o sorted

RECURSIVE SortDesc(_)
SortDesc(rows) ==
  IF rows = <<>> THEN <<>>
  ELSE InsertDesc(SortDesc(SubSeq(rows, 1, Len(rows) - 1)), rows[Len(rows)])

sort_values(rows) == SortDesc(SelectSeq(rows, IsNotNull)) \o SelectSeq(rows, IsNull)

(***************************************************************************)
(* The source's package listing (environment).  GET /packages with         *)
(* order[playedAt]=desc serves the published packages newest first,        *)
(* pageSize per page; playedAt[before]=T keeps the packages played at T or *)
(* earlier (the API's date filter: before is inclusive, and a value that   *)
(* is no date, such as NaT, is ignored).                                   *)
(***************************************************************************)
Newer(p, q) == pkgDate[p] > pkgDate[q] \/ (pkgDate[p] = pkgDate[q] /\ p < q)

MatchesFilter(p, before) ==
  \/ before \in {None, NaT}
  \/ pkgDate[p] # NoDate /\ pkgDate[p] <= before

\* the packages of S, newest first
RECURSIVE NewestFirst(_)
NewestFirst(S) ==
  IF S = {} THEN <<>>
  ELSE LET first == CHOOSE p \in S : \A q \in S \ {p} : Newer(p, q)
       IN <<first>> \o NewestFirst(S \ {first})

Listing(before) == NewestFirst({p \in Pkgs : MatchesFilter(p, before)})

ServedPage(before, page) ==
  LET all == Listing(before)
  IN SubSeq(all, (page - 1) * pageSize + 1, Min(page * pageSize, Len(all)))

\* what the source may answer to /packages/<p>/tours and the tours' questions
\* In a run, package p holds one tour whose question list is empty, the
\* question p, or a question object without id.
QuestionAnswers(p) == {Error, Ok(<<>>), Ok(<<p>>), Ok(<<NoId>>)}
TitleOf(id) == <<"title", id>>

ToursAnswers(p) ==
  {Error, Ok(<<>>)} \cup
  {Ok(<<[id |-> p, title |-> TitleOf(p), number |-> 1, questions |-> qa]>>) :
     qa \in QuestionAnswers(p)}

package_info(p) == [id |-> p, title |-> TitleOf(p), playedAt |-> pkgDate[p]]

(***************************************************************************)
(* main() of Pipeline A.                                                   *)
(***************************************************************************)
\* The code only compares played-at values, so one catalogue is drawn per
\* order pattern: packages numbered from the newest, dates without gaps.
InitA ==
  /\ pkgDate \in [Pkgs -> {NoDate} \cup Dates]
  /\ \A p, q \in Pkgs : p < q => pkgDate[p] >= pkgDate[q]
  /\ \A p \in Pkgs : pkgDate[p] > 1 => \E q \in Pkgs : pkgDate[q] = pkgDate[p] - 1
  /\ pageSize \in PageSizes
  /\ limit \in {None} \cup Limits
  /\ file = Absent
  /\ run = 1
  /\ pc = "start"
  /\ last_played_at = None
  /\ df_existing = <<>>
  /\ current_page = 1
  /\ packages_to_process = <<>>
  /\ requests = <<>>
  /\ pending = {}
  /\ all_questions_data = <<>>
  /\ written = FALSE
  /\ prior = file
  /\ raised = {}

\* lines 131-152: derive the resume cursor from the file at args.output
LoadPrior ==
  /\ pc = "start"
  /\ pc' = "listing"
  /\ IF file.state = "ok" /\ file.rows # <<>>
     THEN LET kept == dropna(to_datetime(file.rows))
          IN /\ df_existing' = kept
             /\ last_played_at' = MaxPlayedAt(kept)
     ELSE /\ df_existing' = <<>>
          /\ last_played_at' = None
  /\ UNCHANGED <<pkgDate, pageSize, limit, file, run, current_page,
                 packages_to_process, requests, pending, all_questions_data,
                 written, prior, raised>>

\* lines 187-198: after the loop, return or submit one task per package
EndListing ==
  /\ IF packages_to_process = <<>>
     THEN pc' = "done" /\ pending' = {}
     ELSE pc' = "detail" /\ pending' = DOMAIN packages_to_process
  /\ UNCHANGED <<current_page, packages_to_process>>

\* lines 162: the --limit test at the top of the loop
LimitReached(collected) == limit # None /\ Len(collected) >= limit

\* faulty variant of PageEndsListing: an empty page does not stop the loop
PageEndsListing_ignore_empty(packages_data) == ~packages_data.ok

\* faulty variant of PageEndsListing: a failed fetch does not stop the loop
PageEndsListing_ignore_failure(packages_data) ==
  packages_data.ok /\ packages_data.member = <<>>

\* lines 173-177: no answer or an empty member collection ends the listing
PageEndsListing(packages_data) == ~packages_data.ok \/ packages_data.member = <<>>

\* faulty variant of NextPage: a page is skipped
NextPage_skip(page) == page + 2

\* line 185: current_page += 1
NextPage(page) == page + 1

\* lines 161-185: one iteration of the listing loop
ListPage ==
  /\ pc = "listing"
  /\ IF LimitReached(packages_to_process)
     THEN EndListing /\ UNCHANGED requests
     ELSE \E answer \in {Error, Ok(ServedPage(last_played_at, current_page))} :
            LET packages_data == fetch_data(answer)
                req == [page |-> current_page, before |-> last_played_at,
                        result |-> IF ~packages_data.ok THEN "none"
                                   ELSE IF packages_data.member = <<>> THEN "empty"
                                   ELSE "members"]
            IN /\ requests' = Append(requests, req)
               /\ IF PageEndsListing(packages_data)
                  THEN EndListing
                  ELSE /\ packages_to_process' = packages_to_process \o packages_data.member
                       /\ current_page' = NextPage(current_page)
                       /\ UNCHANGED <<pc, pending>>
  /\ UNCHANGED <<pkgDate, pageSize, limit, file, run, last_played_at,
                 df_existing, all_questions_data, written, prior, raised>>

\* faulty variant of AfterTaskException: the exception leaves the loop
AfterTaskException_propagates == "crashed"

\* lines 209-211: except Exception: log, then the next completed future
AfterTaskException == "detail"

\* lines 207-208: if questions: all_questions_data.extend(questions)
Extend(data, questions) == data \o questions

\* lines 200-211: the coordinator consumes one finished task; future.result()
\* returns the task's records or raises the exception raised inside the task
CompleteTask ==
  /\ pc = "detail"
  /\ \E i \in pending :
       /\ pending' = pending \ {i}
       /\ \/ /\ \E answer \in ToursAnswers(packages_to_process[i]) :
                    all_questions_data' =
                      Extend(all_questions_data,
                             process_package(package_info(packages_to_process[i]), answer, run))
             /\ UNCHANGED <<pc, raised>>
          \/ /\ raised' = raised \cup {i}
             /\ pc' = AfterTaskException
             /\ UNCHANGED all_questions_data
  /\ UNCHANGED <<pkgDate, pageSize, limit, file, run, last_played_at,
                 df_existing, current_page, packages_to_process, requests,
                 written, prior>>

\* faulty variant of NothingNew: the merge and the write always run
NothingNew_never(data) == FALSE

\* line 213: if not all_questions_data
NothingNew(data) == data = <<>>

\* lines 222-231: the merge step
Merged(existing, new, cursor) ==
  drop_duplicates(IF cursor # None THEN concat(existing, new) ELSE new)

\* lines 213-240: nothing new -> return; else merge, sort, write
MergeAndWrite ==
  /\ pc = "detail"
  /\ pending = {}
  /\ IF NothingNew(all_questions_data)
     THEN pc' = "done" /\ UNCHANGED <<file, written>>
     ELSE LET df_final == Merged(df_existing, all_questions_data, last_played_at)
          IN IF SortRaises(df_final)
             THEN pc' = "crashed" /\ UNCHANGED <<file, written>>
             ELSE /\ pc' = "done"
                  /\ \/ file' = Table(sort_values(df_final)) /\ written' = TRUE
                     \/ file' \in {file, Corrupt} /\ UNCHANGED written
  /\ UNCHANGED <<pkgDate, pageSize, limit, run, last_played_at,
                 df_existing, current_page, packages_to_process, requests, pending,
                 all_questions_data, prior, raised>>

\* the script is started again on the same output path
NextRun ==
  /\ pc \in {"done", "crashed"}
  /\ run < MaxRuns
  /\ run' = run + 1
  /\ pc' = "start"
  /\ last_played_at' = None
  /\ df_existing' = <<>>
  /\ current_page' = 1
  /\ packages_to_process' = <<>>
  /\ requests' = <<>>
  /\ pending' = {}
  /\ all_questions_data' = <<>>
  /\ written' = FALSE
  /\ prior' = file
  /\ raised' = {}
  /\ UNCHANGED <<pkgDate, pageSize, limit, file>>

(***************************************************************************)
(* One call of a fetcher.  The source answers a GET with "ok" and a body,  *)
(* or the GET raises: ConnectionError (connection level), HTTPError (from  *)
(* raise_for_status) or ReadTimeout (a RequestException that is no         *)
(* ConnectionError).                                                       *)
(***************************************************************************)
Fetchers == {"fetch_data", "fetch_tournament_ids_from_page", "fetch_questions_from_pack"}
GetOutcomes == {"ok", "ConnectionError", "HTTPError", "ReadTimeout"}

\* shape of a response body: as expected; not decodable (no script block,
\* bad escape, bad JSON); decodable but the path [3]["children"][3][...]
\* misses a key or an index; a container of another type on the path;
\* a pack without questions
BodyShapes == {"well_formed", "undecodable", "missing_path", "wrong_type", "no_questions"}

Idle ==
  /\ fetcher = "fetch_data"
  /\ unit = 1
  /\ delay = 0
  /\ fpc = "returned"
  /\ attempt = 0
  /\ outcomes = <<>>
  /\ sleeps = <<>>
  /\ body = "well_formed"
  /\ result = "None"

InitCall ==
  /\ fetcher \in Fetchers
  /\ unit \in 1..MaxUnits
  /\ delay \in IF fetcher = "fetch_data" THEN 0..MaxDelay ELSE {0}
  /\ fpc = "request"
  /\ attempt = 0
  /\ outcomes = <<>>
  /\ sleeps = <<>>
  /\ body = "well_formed"
  /\ result = "pending"

RECURSIVE Sum(_)
Sum(s) == IF s = <<>> THEN 0 ELSE Head(s) + Sum(Tail(s))

\* scraper_db.py lines 48-60: sleep, one GET, decode; every failure -> None
fetch_data_call ==
  /\ fetcher = "fetch_data"
  /\ fpc = "request"
  /\ sleeps' = Append(sleeps, delay)
  /\ \E outcome \in GetOutcomes, shape \in BodyShapes :
       /\ outcomes' = Append(outcomes, outcome)
       /\ body' = IF outcome = "ok" THEN shape ELSE body
       /\ result' = IF outcome = "ok" /\ shape # "undecodable" THEN "payload" ELSE "None"
  /\ fpc' = "returned"
  /\ UNCHANGED <<fetcher, unit, delay, attempt>>

\* faulty variant of BackoffDelay: 2 ** attempt
BackoffDelay_from_one(a) == 2 ^ a

\* scraper_gq.py lines 71, 116: delay = 2 ** (attempt + 1)
BackoffDelay(a) == 2 ^ (a + 1)

\* faulty variant of Retryable: every failed GET is retried
Retryable_any(outcome) == outcome # "ok"

\* scraper_gq.py lines 68, 113: only requests.exceptions.ConnectionError
\* reaches the retry branch
Retryable(outcome) == outcome = "ConnectionError"

\* scraper_gq.py lines 61-83 and 106-128: one pass of the retry loop
RetryLoopPass ==
  /\ fpc = "request"
  /\ attempt < RETRIES
  /\ \E outcome \in GetOutcomes, shape \in BodyShapes :
       /\ outcomes' = Append(outcomes, outcome)
       /\ IF outcome = "ok"
          THEN /\ fpc' = "parse"
               /\ body' = shape
               /\ UNCHANGED <<attempt, sleeps, result>>
          ELSE IF Retryable(outcome) /\ attempt < RETRIES - 1
          THEN /\ sleeps' = Append(sleeps, BackoffDelay(attempt))
               /\ attempt' = attempt + 1
               /\ UNCHANGED <<fpc, body, result>>
          ELSE /\ fpc' = "returned"
               /\ result' = "None"
               /\ UNCHANGED <<attempt, sleeps, body>>
  /\ UNCHANGED <<fetcher, unit, delay>>

fetch_tournament_ids_request == fetcher = "fetch_tournament_ids_from_page" /\ RetryLoopPass

fetch_questions_request == fetcher = "fetch_questions_from_pack" /\ RetryLoopPass

\* scraper_gq.py lines 84-99: extract the blob, follow the path to "packs";
\* the ids are returned whatever the packs hold
fetch_tournament_ids_parse ==
  /\ fetcher = "fetch_tournament_ids_from_page"
  /\ fpc = "parse"
  /\ IF body = "wrong_type"
     THEN fpc' = "raised" /\ result' = "raised"
     ELSE /\ fpc' = "returned"
          /\ result' = IF body \in {"well_formed", "no_questions"} THEN "payload" ELSE "None"
  /\ UNCHANGED <<fetcher, unit, delay, attempt, outcomes, sleeps, body>>

\* scraper_gq.py lines 130-169: extract the blob, follow the path to "pack",
\* flatten its questions; no question -> None
fetch_questions_parse ==
  /\ fetcher = "fetch_questions_from_pack"
  /\ fpc = "parse"
  /\ IF body = "wrong_type"
     THEN fpc' = "raised" /\ result' = "raised"
     ELSE /\ fpc' = "returned"
          /\ result' = IF body = "well_formed" THEN "payload" ELSE "None"
  /\ UNCHANGED <<fetcher, unit, delay, attempt, outcomes, sleeps, body>>

Next ==
  \/ LoadPrior /\ UNCHANGED <<varsF, varsP>>
  \/ ListPage /\ UNCHANGED <<varsF, varsP>>
  \/ CompleteTask /\ UNCHANGED <<varsF, varsP>>
  \/ MergeAndWrite /\ UNCHANGED <<varsF, varsP>>
  \/ NextRun /\ UNCHANGED <<varsF, varsP>>

NextFetch ==
  \/ fetch_data_call /\ UNCHANGED <<varsA, varsP>>
  \/ fetch_tournament_ids_request /\ UNCHANGED <<varsA, varsP>>
  \/ fetch_questions_request /\ UNCHANGED <<varsA, varsP>>
  \/ fetch_tournament_ids_parse /\ UNCHANGED <<varsA, varsP>>
  \/ fetch_questions_parse /\ UNCHANGED <<varsA, varsP>>

(***************************************************************************)
(* One call of process_package on a package of up to MaxTours tours of up  *)
(* to MaxQuestions questions.  Tour i has number i and id 10 + i (or no    *)
(* id); its question j has id 100 * i + j (or no id).                      *)
(***************************************************************************)
RECURSIVE QuestionLists(_, _)
QuestionLists(i, n) ==
  \* the question lists of tour i of length <= n
  IF n = 0 THEN {<<>>}
  ELSE LET shorter == QuestionLists(i, n - 1)
       IN shorter \cup
          {Append(qs, q) : qs \in {u \in shorter : Len(u) = n - 1},
                           q \in {NoId, 100 * i + n}}

TourInfos(i) ==
  {[id |-> id, title |-> TitleOf(10 + i), number |-> i, questions |-> qa] :
     id \in {NoId, 10 + i},
     qa \in {Error} \cup {Ok(qs) : qs \in QuestionLists(i, MaxQuestions)}}

RECURSIVE TourLists(_)
TourLists(n) ==
  \* the tour lists of length <= n
  IF n = 0 THEN {<<>>}
  ELSE LET shorter == TourLists(n - 1)
       IN shorter \cup
          {Append(ts, t) : ts \in {u \in shorter : Len(u) = n - 1}, t \in TourInfos(n)}

PackageInfos ==
  {[id |-> id, title |-> TitleOf(id), playedAt |-> d] :
     id \in {NoId, 1}, d \in {NoDate, 1}}

NoCall ==
  /\ package = [id |-> NoId, title |-> TitleOf(NoId), playedAt |-> NoDate]
  /\ tours_payload = Error
  /\ ppc = "idle"
  /\ package_questions = <<>>

InitPackageCall ==
  /\ package \in PackageInfos
  /\ tours_payload \in {Error} \cup {Ok(ts) : ts \in TourLists(MaxTours)}
  /\ ppc = "call"
  /\ package_questions = <<>>

\* scraper_db.py lines 104-124, with process_tour for every tour
process_package_call ==
  /\ ppc = "call"
  /\ ppc' = "returned"
  /\ package_questions' = process_package(package, tours_payload, 1)
  /\ UNCHANGED <<package, tours_payload>>

\* a run of Pipeline A, no fetcher or flattener call observed on its own
Init == InitA /\ Idle /\ NoCall

Spec == Init /\ [][Next]_vars

\* main() of Pipeline A not started
MainNotStarted ==
  /\ pkgDate = [p \in Pkgs |-> NoDate]
  /\ pageSize = 1
  /\ limit = None
  /\ file = Absent
  /\ run = 1
  /\ pc = "start"
  /\ last_played_at = None
  /\ df_existing = <<>>
  /\ current_page = 1
  /\ packages_to_process = <<>>
  /\ requests = <<>>
  /\ pending = {}
  /\ all_questions_data = <<>>
  /\ written = FALSE
  /\ prior = file
  /\ raised = {}

\* a single call of one of the fetchers
InitFetch == InitCall /\ MainNotStarted /\ NoCall

SpecFetch == InitFetch /\ [][NextFetch]_vars

\* a single call of the flattener
InitFlatten == InitPackageCall /\ MainNotStarted /\ Idle

NextFlatten == process_package_call /\ UNCHANGED <<varsA, varsF>>

SpecFlatten == InitFlatten /\ [][NextFlatten]_vars

(***************************************************************************)
(* Properties of Pipeline A.                                               *)
(***************************************************************************)
Ids(rows) == {rows[i].question_id : i \in DOMAIN rows}
RowsWithId(rows, id) == {i \in DOMAIN rows : rows[i].question_id = id}
LastWithId(rows, id) ==
  rows[CHOOSE i \in RowsWithId(rows, id) : \A j \in RowsWithId(rows, id) : j <= i]

\* the run wrote the table that is now in the file
WroteTable == written /\ pc = "done" /\ file.state = "ok"

\* a run that resumes from a cursor taken from the prior table
Resumed == last_played_at \notin {None, NaT}

\* C1: no two rows of a written table share a question id.
C1_UniqueQuestionIds ==
  file.state = "ok" =>
    \A i, j \in DOMAIN file.rows :
      i # j => file.rows[i].question_id # file.rows[j].question_id

\* C1 witness: a table was written from a concatenation of prior and new
\* rows that held the same question id twice.
C1_Witness ==
  /\ WroteTable
  /\ last_played_at # None
  /\ \E i \in DOMAIN df_existing, j \in DOMAIN all_questions_data :
       df_existing[i].question_id = all_questions_data[j].question_id
  /\ \E i, j \in DOMAIN all_questions_data :
       i # j /\ all_questions_data[i].question_id = all_questions_data[j].question_id

\* C2 (as claimed): in a resumed run with cursor T only packages played
\* after T are collected and scheduled.
C2_OnlyNewerCollected ==
  Resumed =>
    \A i \in DOMAIN packages_to_process :
      pkgDate[packages_to_process[i]] > last_played_at

\* C3 (as claimed): every row of a written table has a question id.
C3_NonNullQuestionIds ==
  file.state = "ok" =>
    \A i \in DOMAIN file.rows : file.rows[i].question_id # NoId

\* C4: for every question id that a prior row and a newly fetched record
\* share, the written table holds exactly one row, the last fetched one.
C4_NewRecordWins ==
  WroteTable =>
    \A id \in Ids(prior.rows) \cap Ids(all_questions_data) :
      /\ Cardinality(RowsWithId(file.rows, id)) = 1
      /\ \A i \in RowsWithId(file.rows, id) :
           file.rows[i] = LastWithId(all_questions_data, id)

\* C4 witness: a table was written in a run whose loaded prior table and
\* new records share a question id, the two rows differing.
C4_Witness ==
  /\ WroteTable
  /\ \E i \in DOMAIN df_existing, j \in DOMAIN all_questions_data :
       /\ df_existing[i].question_id = all_questions_data[j].question_id
       /\ df_existing[i].question_id # NoId
       /\ df_existing[i].fetched_in # all_questions_data[j].fetched_in

\* the merge step of a following run that loads table and fetches new again
Remerged(table, new) ==
  LET existing == dropna(to_datetime(table))
  IN Merged(existing, new, MaxPlayedAt(existing))

\* C5: merging the same new records into the table just written neither
\* raises nor changes the table.
C5_MergeIdempotent ==
  WroteTable =>
    /\ ~SortRaises(Remerged(file.rows, all_questions_data))
    /\ sort_values(Remerged(file.rows, all_questions_data)) = file.rows

\* C5 witness: the written table came from a merge of two or more new
\* records with a non-empty prior table.
C5_Witness ==
  /\ WroteTable
  /\ last_played_at # None
  /\ df_existing # <<>>
  /\ Len(all_questions_data) >= 2

\* C6 (as claimed): no package with rows in the prior table is submitted to
\* the detail phase of a resumed run.
C6_StoredNotRequestedAgain ==
  Resumed =>
    \A i \in DOMAIN packages_to_process, k \in DOMAIN df_existing :
      df_existing[k].package_id # packages_to_process[i]

\* C9: once page N came back empty after non-empty pages 1..N-1, exactly
\* N-1 pages have been collected, the listing is over and page N is the last
\* page requested.
C9_StopsAtEmptyPage ==
  \A n \in DOMAIN requests :
    requests[n].result = "empty" =>
      /\ \A k \in 1..n : requests[k].page = k
      /\ \A k \in 1..(n - 1) : requests[k].result = "members"
      /\ Len(requests) = n
      /\ current_page = n
      /\ pc # "listing"

\* C9 witness: an empty page ended a listing of two or more pages.
C9_Witness ==
  /\ Len(requests) >= 3
  /\ requests[Len(requests)].result = "empty"

\* C10 (as claimed): with --limit L at most L packages are collected.
C10_LimitNeverExceeded ==
  limit # None => Len(packages_to_process) <= limit

(***************************************************************************)
(* Properties of the fetchers.                                             *)
(***************************************************************************)
OnlyConnectionErrors ==
  outcomes # <<>> /\ \A i \in DOMAIN outcomes : outcomes[i] = "ConnectionError"

\* sleeps of exponentially growing length: 2, 4, ... between the attempts
ExponentialSleeps(n) ==
  /\ Len(sleeps) = n
  /\ \A i \in 1..n : sleeps[i] = 2 ^ i

\* C7 (as claimed): a fetch of either pipeline that returns a failure after
\* connection errors alone has made RETRIES attempts with exponentially
\* growing sleeps between them.
C7_ConnectionErrorsRetried ==
  (fpc = "returned" /\ result = "None" /\ OnlyConnectionErrors) =>
     /\ Len(outcomes) = RETRIES
     /\ ExponentialSleeps(RETRIES - 1)

\* C8: a call whose GETs were connection error, connection error, success
\* with a well-formed body returns the payload after exactly three requests
\* and at least 2 + 4 seconds of sleep.
C8_ThirdAttemptSucceeds ==
  (/\ fpc \in {"returned", "raised"}
   /\ Len(outcomes) >= 3
   /\ SubSeq(outcomes, 1, 3) = <<"ConnectionError", "ConnectionError", "ok">>
   /\ body = "well_formed") =>
     /\ result = "payload"
     /\ Len(outcomes) = 3
     /\ Sum(sleeps) >= 2 + 4

\* C8 witness: a fetcher has returned after two connection errors and a
\* successful third request.
C8_Witness ==
  /\ fpc = "returned"
  /\ outcomes = <<"ConnectionError", "ConnectionError", "ok">>
  /\ body = "well_formed"

\* the records of package p in the aggregate, and the aggregate as it would
\* be had the tasks completed in submission order
RecordsOf(p) == SelectSeq(all_questions_data, LAMBDA r : r.package_id = p)

InSubmissionOrder ==
  Flatten([i \in DOMAIN packages_to_process |-> RecordsOf(packages_to_process[i])])

\* C11 (as claimed): the written table is the one that the same per-package
\* results give in any other completion order, here the submission order:
\* same surviving rows, same row order (all questions carrying an id).
C11_CompletionOrderIrrelevant ==
  (WroteTable /\ NoId \notin Ids(all_questions_data)) =>
    file.rows = sort_values(Merged(df_existing, InSubmissionOrder, last_played_at))

\* C13 (as claimed): main never ends with an uncaught exception.
C13_NoUncaughtException == pc # "crashed"

\* C15: a run that has collected no new record leaves the file as it was.
C15_NothingNewNothingWritten ==
  (pc = "done" /\ all_questions_data = <<>>) => (file = prior /\ ~written)

\* C15 witness: a run over an existing table listed packages, every task
\* came back without records, and the run ended.
C15_Witness ==
  /\ pc = "done"
  /\ prior.state = "ok"
  /\ packages_to_process # <<>>
  /\ all_questions_data = <<>>

\* C18: pages are requested in the order 1, 2, ..., each after a non-empty
\* answer to the one before, and while the listing runs no task is submitted
\* and no record collected.
C18_TwoPhases ==
  /\ \A k \in DOMAIN requests :
       /\ requests[k].page = k
       /\ k < Len(requests) => requests[k].result = "members"
  /\ pc = "listing" => (pending = {} /\ all_questions_data = <<>>)
  /\ pending # {} => pc = "detail"

\* C18 witness: tasks are pending after a listing of two or more requests.
C18_Witness ==
  /\ pc = "detail"
  /\ pending # {}
  /\ Len(requests) >= 2

\* C19 (as claimed): a table written over an existing table still holds
\* every question id of that table.
C19_PriorIdsKept ==
  (WroteTable /\ prior.state = "ok") => Ids(prior.rows) \subseteq Ids(file.rows)

\* C20: a failed listing fetch is the last request of the run and ends the
\* listing; the packages collected before it are all submitted, and the run
\* ends only when every task has been consumed.
C20_FailedPageEndsListing ==
  \A n \in DOMAIN requests :
    requests[n].result = "none" =>
      /\ Len(requests) = n
      /\ current_page = n
      /\ pc # "listing"
      /\ packages_to_process = <<>> => (pc = "done" /\ ~written)
      /\ packages_to_process # <<>> =>
           \/ pc = "detail" /\ pending \subseteq DOMAIN packages_to_process
           \/ pc \in {"done", "crashed"} /\ pending = {}

\* C20 witness: the second page failed and the records of the first page's
\* packages were merged and written.
C20_Witness ==
  /\ Len(requests) >= 2
  /\ requests[Len(requests)].result = "none"
  /\ WroteTable

\* a GET that got a non-2xx status, or a body that cannot be decoded
NotRetried(i) ==
  \/ outcomes[i] = "HTTPError"
  \/ outcomes[i] = "ok" /\ body = "undecodable"

\* C14: a GET answered with a non-2xx status or an undecodable body is the
\* last GET of the call, no sleep follows it (the sleeps are the i - 1
\* backoffs before it, or fetch_data's one delay before its GET), and the
\* call returns None.
C14_NoRetryOnStatusOrDecodeFailure ==
  \A i \in DOMAIN outcomes :
    NotRetried(i) =>
      /\ i = Len(outcomes)
      /\ Len(sleeps) = IF fetcher = "fetch_data" THEN 1 ELSE i - 1
      /\ outcomes[i] = "HTTPError" => fpc = "returned"
      /\ fpc # "raised"
      /\ fpc = "returned" => result = "None"

\* C14 witness: a fetcher with a retry loop returned on a non-2xx status
\* received at its second attempt.
C14_Witness ==
  /\ fetcher # "fetch_data"
  /\ fpc = "returned"
  /\ outcomes = <<"ConnectionError", "HTTPError">>

\* C17 (as claimed): whenever the decoded blob lacks the expected path, a
\* Pipeline B fetcher returns None and raises nothing.
C17_SchemaDriftReturnsNone ==
  (/\ fetcher # "fetch_data"
   /\ fpc \in {"returned", "raised"}
   /\ outcomes # <<>>
   /\ outcomes[Len(outcomes)] = "ok"
   /\ body \in {"missing_path", "wrong_type"}) =>
     (fpc = "returned" /\ result = "None")

(***************************************************************************)
(* The flattener                                                           *)
(***************************************************************************)
ToursOf == tours_payload.member

\* every fetch the call makes succeeds and nothing it reads is missing
AllFetched ==
  /\ package.id # NoId
  /\ tours_payload # Error
  /\ \A i \in DOMAIN ToursOf : ToursOf[i].id # NoId /\ ToursOf[i].questions # Error

QuestionsOf(i) == ToursOf[i].questions.member

\* the number of questions of the tours before tour i
Offset(i) == Sum([t \in 1..(i - 1) |-> Len(QuestionsOf(t))])

\* C16: a package whose tours and question fetches all succeed is flattened
\* into one record per question, in tour order and question order, and the
\* record of question j of tour i carries the package's id, title and
\* played-at, that tour's id, title and number, and the question's own id
C16_OneRecordPerQuestion ==
  (ppc = "returned" /\ AllFetched) =>
    /\ Len(package_questions) = Offset(Len(ToursOf) + 1)
    /\ \A i \in DOMAIN ToursOf : \A j \in DOMAIN QuestionsOf(i) :
         LET r == package_questions[Offset(i) + j]
         IN /\ r.question_id = QuestionsOf(i)[j]
            /\ r.package_id = package.id
            /\ r.package_title = package.title
            /\ r.package_played_at = package.playedAt
            /\ r.tour_id = ToursOf[i].id
            /\ r.tour_title = ToursOf[i].title
            /\ r.tour_number = ToursOf[i].number

\* two tours of two questions each, flattened into four records
C16_Witness ==
  /\ ppc = "returned" /\ AllFetched
  /\ Len(ToursOf) = 2
  /\ \A i \in DOMAIN ToursOf : Len(QuestionsOf(i)) = 2
  /\ Len(package_questions) = 4
  /\ package_questions[3].tour_id = ToursOf[2].id

(***************************************************************************)
(* Exceptions inside package tasks                                         *)
(***************************************************************************)
Submitted == DOMAIN packages_to_process

\* the merge step of this run would raise (the exception of C13, raised
\* after the detail phase and unrelated to the tasks)
MergeRaises ==
  /\ all_questions_data # <<>>
  /\ SortRaises(Merged(df_existing, all_questions_data, last_played_at))

\* C12: once a package task has raised, the run is not aborted: while tasks
\* are pending the coordinator keeps consuming them, the aggregate holds
\* nothing of a raised or pending task and the records of every other
\* submitted task once (each answer of the source sampled here holds at most
\* one question), and when no task is pending the merge-and-persist step is
\* taken; the run ends crashed only where the merge itself raises
C12_TaskExceptionContained ==
  raised # {} =>
    /\ raised \subseteq Submitted \ pending
    /\ pending # {} => pc = "detail"
    /\ (pc = "detail" /\ pending = {}) => ENABLED MergeAndWrite
    /\ pc \in {"detail", "done", "crashed"}
    /\ pc = "crashed" => (pending = {} /\ MergeRaises)
    /\ \A i \in Submitted :
         /\ i \in raised \cup pending => RecordsOf(packages_to_process[i]) = <<>>
         /\ Len(RecordsOf(packages_to_process[i])) <= 1
    /\ Len(all_questions_data) <= Cardinality(Submitted \ (raised \cup pending))

\* one task raised, a sibling delivered its record, and the table was written
C12_Witness ==
  /\ raised # {}
  /\ Len(packages_to_process) >= 2
  /\ WroteTable
  /\ \E i \in Submitted \ raised : RecordsOf(packages_to_process[i]) # <<>>

====
